---- MODULE Spec2Model ----
(***************************************************************************)
(* State-machine model of the DiamondBackground canvas component, in its   *)
(* two drafts:                                                             *)
(*   part_001  Set of window-relative keys, visible reshuffle, theta = 45  *)
(*   part_000  Map of absolute keys with startOffset, edge spawn,          *)
(*             theta = 135                                                 *)
(*                                                                         *)
(* Numbers.  Lengths are integers in units of 1/Scale px (viewport sizes   *)
(* are px), times are integer milliseconds.  The rotation basis is         *)
(* cos = sin = sqrt(2)/2 (part_001) and cos = -sqrt(2)/2, sin = sqrt(2)/2  *)
(* (part_000); a screen coordinate is kept as its product with sqrt(2),    *)
(* which is an integer, and a comparison against a screen bound is decided *)
(* exactly by GtRoot2.  Math.random() is a value k/RandomSteps.            *)
(*                                                                         *)
(* React runs the cleanup of an effect and its next run in one task; a     *)
(* render that changes a dependency and that task are one step here.       *)
(***************************************************************************)
EXTENDS Integers, Sequences, FiniteSets, TLC

VARIABLES
    draft,        \* which draft is mounted: "part_000" or "part_001"
    props,        \* the props the running effect closed over
    reduced,      \* usePrefersReducedMotion(), as the running effect closed over it
    viewport,     \* the host's size <<width, height>> in px (environment)
    now,          \* performance.now() and the frame timestamps, ms (environment)
    w, h,         \* effect closure: let w, h (px)
    colsVisible,  \* colsVisibleRef.current
    rowsVisible,  \* rowsVisibleRef.current
    highlights,   \* highlightsRef.current
    lastShuffle,  \* lastShuffleRef.current (part_001), lastSpawnRef.current (part_000)
    last, acc, off, \* effect closure: animation state (ms, ms, units)
    surface,      \* the canvas: Blank, or what the last frame painted it from
    sched,        \* the host's side: canvas kind, rafRef.current, pending frame
                  \* callbacks, registered listeners, whether an exception escaped
    hist          \* history of the run (not program state)

vars == <<draft, props, reduced, viewport, now, w, h, colsVisible,
          rowsVisible, highlights, lastShuffle, last, acc, off, surface, sched,
          hist>>

-----------------------------------------------------------------------------
(* Bounds of the model *)

MaxTicks == 2
MaxEvents == 1
RandomSteps == 2
MaxClockTicks == 72

(* Program constants *)

DefaultDiamondSize == 20
DefaultGap == 24
DefaultSpeed == 10
DefaultHighlightCount == 6
DefaultHighlightEveryMs == 10000
DefaultTargetFps == 0
DtClampMs == 64
MaxSpawnPerTick == 2
PadSafety == 2
CoverageExtra001 == 2
CoverageExtra000 == 10
CoveragePadSpacings000 == 3
WindowMargin001 == 1
WindowMargin000 == 5

Scale == 5 * 5

DefaultProps ==
    [diamondSize |-> DefaultDiamondSize, gap |-> DefaultGap,
     speed |-> DefaultSpeed, highlightCount |-> DefaultHighlightCount,
     highlightEveryMs |-> DefaultHighlightEveryMs,
     targetFps |-> DefaultTargetFps, direction |-> "NE_SW"]

-----------------------------------------------------------------------------
(* Exact arithmetic *)

\* X > B * sqrt(2), for integers X and B
GtRoot2(X, B) ==
    LET g == IF X % Scale = 0 /\ B % Scale = 0 THEN Scale ELSE 1  \* keeps squares small
        x == X \div g
        b == B \div g
    IN  IF b >= 0
        THEN x > b /\ (x > 2 * b \/ x * x > 2 * b * b)
        ELSE x >= b \/ (x > 2 * b /\ x * x < 2 * b * b)

\* X < B * sqrt(2)
LtRoot2(X, B) == GtRoot2(-X, -B)

\* floor(A * sqrt(2)) for A >= 0 (1.414 < sqrt(2) < 1.415 narrows the search)
FloorRoot2(A) ==
    CHOOSE k \in ((A * 1414) \div 1000)..((A * 1415) \div 1000 + 1) :
        k * k <= 2 * A * A /\ (k + 1) * (k + 1) > 2 * A * A

\* Math.ceil(n / 2) for an integer n
CeilHalf(n) == (n + 1) \div 2

\* Math.abs
Abs(x) == IF x < 0 THEN -x ELSE x

\* Math.min
Min(a, b) == IF a < b THEN a ELSE b

\* The % of JavaScript for n # 0: the result has the sign of the dividend and
\* the magnitude |a| mod |n|
JsMod(a, n) == IF a >= 0 THEN a % Abs(n) ELSE -((-a) % Abs(n))

\* Math.floor(Math.random() * n), the random value being k / RandomSteps
RandomValues == 0..(RandomSteps - 1)
RandomIndex(k, n) == (k * n) \div RandomSteps

SetMax(S) == CHOOSE x \in S : \A y \in S : y <= x
SetMin(S) == CHOOSE x \in S : \A y \in S : x <= y

-----------------------------------------------------------------------------
(* Geometry shared by the drafts: constants of the effect closure, for the *)
(* props p it closed over                                                  *)

spacingOf(p) == (p.diamondSize + p.gap) * Scale
rowStrideOf(p) == spacingOf(p)
halfOf(p) == (p.diamondSize * Scale) \div 2
diamondSizeOf(p) == p.diamondSize * Scale

evenSignOf(p) == IF p.direction = "NE_SW" THEN 1 ELSE -1
oddSignOf(p) == -evenSignOf(p)

isEven(r) == r % 2 = 0
vRowOf(p, r) == r * rowStrideOf(p) + rowStrideOf(p) \div 2

\* A faulty stagger that finds odd rows by the remainder, which is -1 below zero
staggerOfRemainder(p, r) == IF JsMod(r, 2) = 1 THEN spacingOf(p) \div 2 ELSE 0

staggerOf(p, r) == IF isEven(r) THEN 0 ELSE spacingOf(p) \div 2
uShiftOf(p, r, o) == (IF isEven(r) THEN evenSignOf(p) ELSE oddSignOf(p)) * o
uColOf(p, c) == c * spacingOf(p) + spacingOf(p) \div 2
\* u = uCol + stagger + uShift
TileU(p, r, c, o) == uColOf(p, c) + staggerOf(p, r) + uShiftOf(p, r, o)

\* The index window of a frame: [-ceil(n/2)-k, ceil(n/2)+k)
WindowStart(n, k) == -CeilHalf(n) - k
WindowEnd(n, k) == CeilHalf(n) + k
WindowRange(n, k) == WindowStart(n, k)..(WindowEnd(n, k) - 1)

-----------------------------------------------------------------------------
(* Sampling loops.  A loop that adds one random key per pass to a Set      *)
(* until the Set holds max keys or the passes run out; the result is the   *)
(* set of all Sets it can end with, over every outcome of Math.random().   *)

\* One pass: a Set that is full stays, any other gains one of the draws
SampleStep(Ps, draws, max) ==
    {q \in Ps : Cardinality(q) >= max} \cup
    {q \cup {d} : q \in {q2 \in Ps : Cardinality(q2) < max}, d \in draws}

RECURSIVE SampleLoop(_, _, _, _)
SampleLoop(Ps, draws, max, passes) ==
    IF passes <= 0 THEN Ps
    ELSE LET Qs == SampleStep(Ps, draws, max)
         IN  IF Qs = Ps THEN Ps ELSE SampleLoop(Qs, draws, max, passes - 1)

-----------------------------------------------------------------------------
(* part_001 *)

\* x * sqrt(2) and y * sqrt(2) of x = u*cos - v*sin, y = u*sin + v*cos
ScreenX001(u, v) == u - v
ScreenY001(u, v) == u + v

\* Math.ceil((span / sqrt(2) + add) / div): the smallest n with n*div >= span/sqrt(2) + add
CeilRoot2(span, add, div) ==
    CHOOSE n \in 0..((span + add) \div div + 1) :
        /\ ~GtRoot2(span, n * div - add)
        /\ (n = 0 \/ GtRoot2(span, (n - 1) * div - add))

\* The Sets the seeding loop of computeCoverageCounts can end with
SeedOutcomes(p, cols, rows) ==
    LET max   == Min(p.highlightCount, cols * rows)
        draws == {<<RandomIndex(k1, rows), RandomIndex(k2, cols)>> :
                      k1 \in RandomValues, k2 \in RandomValues}
    IN  SampleLoop({{}}, draws, max, cols * rows * 3)

\* computeCoverageCounts(width, height), width and height in px: the counts
CoverageCounts001(p, width, height) ==
    LET corners == {<<0, 0>>, <<width, 0>>, <<0, height>>, <<width, height>>}
        us == {(c[1] + c[2]) * Scale : c \in corners}      \* u * sqrt(2)
        vs == {(c[2] - c[1]) * Scale : c \in corners}      \* v * sqrt(2)
        uPad == (spacingOf(p) * 3) \div 2 + halfOf(p) + PadSafety * Scale
        vPad == halfOf(p) + PadSafety * Scale
    IN  [cols |-> CeilRoot2(SetMax(us) - SetMin(us), 2 * uPad, spacingOf(p))
                    + CoverageExtra001,
         rows |-> CeilRoot2(SetMax(vs) - SetMin(vs), 2 * vPad, rowStrideOf(p))
                    + CoverageExtra001]

\* The visibility test of reshuffleHighlightsVisible (pad = half), ww, hh in px
Visible001(p, u, v, ww, hh) ==
    /\ GtRoot2(ScreenX001(u, v), -halfOf(p))
    /\ LtRoot2(ScreenX001(u, v), ww * Scale + halfOf(p))
    /\ GtRoot2(ScreenY001(u, v), -halfOf(p))
    /\ LtRoot2(ScreenY001(u, v), hh * Scale + halfOf(p))

\* A faulty culling test that skips every tile centred outside the viewport
Culled001AtEdge(p, u, v, ww, hh) ==
    \/ LtRoot2(ScreenX001(u, v), 0)
    \/ GtRoot2(ScreenX001(u, v), ww * Scale)
    \/ LtRoot2(ScreenY001(u, v), 0)
    \/ GtRoot2(ScreenY001(u, v), hh * Scale)

\* The culling test of frame: true when the tile is skipped
Culled001(p, u, v, ww, hh) ==
    \/ LtRoot2(ScreenX001(u, v), -diamondSizeOf(p))
    \/ GtRoot2(ScreenX001(u, v), ww * Scale + diamondSizeOf(p))
    \/ LtRoot2(ScreenY001(u, v), -diamondSizeOf(p))
    \/ GtRoot2(ScreenY001(u, v), hh * Scale + diamondSizeOf(p))

\* The window of part_001 in iteration order (row by row), as lattice indices
WindowSeq001(cols, rows) ==
    LET nc == WindowEnd(cols, WindowMargin001) - WindowStart(cols, WindowMargin001)
        nr == WindowEnd(rows, WindowMargin001) - WindowStart(rows, WindowMargin001)
    IN  [i \in 1..(nr * nc) |->
            <<WindowStart(rows, WindowMargin001) + ((i - 1) \div nc),
              WindowStart(cols, WindowMargin001) + ((i - 1) % nc)>>]

\* The key frame and reshuffleHighlightsVisible give the tile (r, c)
Key001(r, c, cols, rows) ==
    <<r - WindowStart(rows, WindowMargin001), c - WindowStart(cols, WindowMargin001)>>

\* candidates of reshuffleHighlightsVisible, in push order
Candidates001(p, cols, rows, o, ww, hh) ==
    LET vis == SelectSeq(WindowSeq001(cols, rows),
                   LAMBDA t : Visible001(p, TileU(p, t[1], t[2], o), vRowOf(p, t[1]), ww, hh))
    IN  [i \in 1..Len(vis) |-> Key001(vis[i][1], vis[i][2], cols, rows)]

\* The Sets the pick loop of reshuffleHighlightsVisible can end with
PickOutcomes(p, candidates) ==
    LET draws == {candidates[RandomIndex(k, Len(candidates)) + 1] : k \in RandomValues}
    IN  IF Len(candidates) = 0 THEN {{}}
        ELSE SampleLoop({{}}, draws, p.highlightCount, Len(candidates))

\* The Sets reshuffleHighlightsVisible can install
ReshuffleOutcomes001(p, cols, rows, o, ww, hh) ==
    PickOutcomes(p, Candidates001(p, cols, rows, o, ww, hh))

-----------------------------------------------------------------------------
(* part_000 *)

\* Math.ceil((sqrt(sq) + add) / div): the smallest n with n*div >= sqrt(sq) + add
CeilSqrt(sq, add, div) ==
    LET Enough(n) == n * div - add >= 0 /\ (n * div - add) * (n * div - add) >= sq
    IN  CHOOSE n \in 0..((sq + add) \div div + 1) : Enough(n) /\ (n = 0 \/ ~Enough(n - 1))

\* computeCoverageCounts(width, height), width and height in px: the counts
CoverageCounts000(p, width, height) ==
    LET spacingPx == p.diamondSize + p.gap
        padding == spacingPx * CoveragePadSpacings000
        n == CeilSqrt(width * width + height * height, padding * 2, spacingPx)
    IN  [cols |-> n + CoverageExtra000, rows |-> n + CoverageExtra000]

\* highlights.has(key)
Has000(hl, key) == \E e \in hl : e.key = key

\* offsetDiff > transitDistance, transitDistance = sqrt(w*w + h*h) + spacing * 2
TravelledTooFar(p, e, currentOffset, ww, hh) ==
    LET d == Abs(currentOffset - e.startOffset) - spacingOf(p) * 2
    IN  d > 0 /\ d * d > (ww * ww + hh * hh) * Scale * Scale

\* The column a spawn computes for a row:
\*   Math.round((u - stagger - uShift - spacing/2) / spacing), with
\*   u = (targetX - screenWidth/2 + vRow*sin) / cos = sqrt(2)*(diamondSize + screenWidth/2) - vRow
SpawnCol(p, row, currentOffset, ww) ==
    (FloorRoot2(diamondSizeOf(p) + (ww * Scale) \div 2)
       - vRowOf(p, row) - staggerOf(p, row) - uShiftOf(p, row, currentOffset))
    \div spacingOf(p)

\* The row a spawn picks: Math.floor(Math.random() * rows) - Math.floor(rows / 2)
SpawnRow(k, rows) == RandomIndex(k, rows) - rows \div 2

\* The entry a spawn makes for the random value k
SpawnEntry(p, k, rows, currentOffset, ww) ==
    [key |-> <<SpawnRow(k, rows), SpawnCol(p, SpawnRow(k, rows), currentOffset, ww)>>,
     startOffset |-> currentOffset]

\* One pass of the spawn loop over every random outcome
SpawnStep(p, Ms, rows, currentOffset, ww) ==
    {IF Has000(m, SpawnEntry(p, k, rows, currentOffset, ww).key)
     THEN m
     ELSE m \cup {SpawnEntry(p, k, rows, currentOffset, ww)} :
         m \in Ms, k \in RandomValues}

RECURSIVE SpawnLoop(_, _, _, _, _, _)
SpawnLoop(p, Ms, passes, rows, currentOffset, ww) ==
    IF passes <= 0 THEN Ms
    ELSE SpawnLoop(p, SpawnStep(p, Ms, rows, currentOffset, ww),
                   passes - 1, rows, currentOffset, ww)

\* The Maps manageHighlights can leave in highlightsRef, called on the Map hl
ManageOutcomes000(p, hl, rows, currentOffset, ww, hh) ==
    LET kept == {e \in hl : ~TravelledTooFar(p, e, currentOffset, ww, hh)}
        numToSpawn == Min(p.highlightCount - Cardinality(kept), MaxSpawnPerTick)
    IN  SpawnLoop(p, {kept}, numToSpawn, rows, currentOffset, ww)

-----------------------------------------------------------------------------
(* The inputs of the model *)

Drafts == {"part_000", "part_001"}

\* Two highlights rather than six, so that the samples stay few
FewHighlights == [DefaultProps EXCEPT !.highlightCount = 2]

\* The props a mount is given
Configs ==
    {[FewHighlights EXCEPT !.speed = 375],
     [FewHighlights EXCEPT !.speed = -10, !.targetFps = 10]}

\* The sizes the host takes, px
Viewports == {<<0, 0>>, <<44, 88>>}

\* now - last of a frame callback: a display refresh, or a return from the background
FrameGaps == {16, 10016}

-----------------------------------------------------------------------------
(* The canvas and the history *)

Blank == [at |-> -1, off |-> 0, w |-> 0, h |-> 0, cols |-> 0, rows |-> 0, hl |-> {}]

\* The keys of highlightsRef.current: a Set of keys, or a Map keyed by them
HighlightKeys(d, hl) == IF d = "part_000" THEN {e.key : e \in hl} ELSE hl

\* The lattice tiles (r, c) a frame iterates
WindowTiles(d, cols, rows) ==
    IF d = "part_000"
    THEN WindowRange(rows, WindowMargin000) \X WindowRange(cols, WindowMargin000)
    ELSE WindowRange(rows, WindowMargin001) \X WindowRange(cols, WindowMargin001)

\* The key under which a frame looks the tile (r, c) up in highlightsRef.current
TileKey(d, r, c, cols, rows) ==
    IF d = "part_000" THEN <<r, c>> ELSE Key001(r, c, cols, rows)

\* The lattice tiles a frame paints in the accent colour when the keys are `keys`
FlaggedTiles(d, cols, rows, keys) ==
    {t \in WindowTiles(d, cols, rows) : TileKey(d, t[1], t[2], cols, rows) \in keys}

\* The keys a spawn of part_000 can make: one per row it can pick
Eligible000(p, rows, currentOffset, ww) ==
    {<<i - rows \div 2, SpawnCol(p, i - rows \div 2, currentOffset, ww)>> :
        i \in 0..(IF rows > 0 THEN rows - 1 ELSE 0)}

\* The size and the counts before the last call of the resize handler: none yet
NoResize == [w |-> -1, h |-> -1, cols |-> 0, rows |-> 0]

NoHistory ==
    [ticks |-> 0, events |-> 0, dt |-> 0, reshuffled |-> FALSE, eligible |-> 0,
     sampledAt |-> -1, sampled |-> {}, elapsedMs |-> 0, advancedMs |-> 0,
     before |-> NoResize]

-----------------------------------------------------------------------------
(* resize() *)

\* A faulty resize() that sizes the canvas and leaves the counts as they were
ResizeOutcomesKeepingCounts(d, p, cur, width, height) ==
    IF width # cur.w \/ height # cur.h
    THEN {[cur EXCEPT !.w = width, !.h = height, !.surface = Blank]}
    ELSE {cur}

\* A faulty resize() without the size guard: every notification recomputes
ResizeOutcomesAlways(d, p, cur, width, height) ==
    LET counts == IF d = "part_000" THEN CoverageCounts000(p, width, height)
                  ELSE CoverageCounts001(p, width, height)
        seeds == IF d = "part_000" THEN {{}}
                 ELSE SeedOutcomes(p, counts.cols, counts.rows)
    IN  {[w |-> width, h |-> height, cols |-> counts.cols, rows |-> counts.rows,
          highlights |-> hl, surface |-> Blank,
          eligible |-> IF d = "part_000" THEN 0 ELSE counts.cols * counts.rows] :
             hl \in seeds}

\* What resize() can leave when the host measures width x height px; cur is
\* [w, h, cols, rows, highlights, surface, eligible] before the call
ResizeOutcomes(d, p, cur, width, height) ==
    IF width # cur.w \/ height # cur.h
    THEN LET counts == IF d = "part_000" THEN CoverageCounts000(p, width, height)
                       ELSE CoverageCounts001(p, width, height)
             seeds == IF d = "part_000" THEN {{}}
                      ELSE SeedOutcomes(p, counts.cols, counts.rows)
         IN  {[w |-> width, h |-> height, cols |-> counts.cols, rows |-> counts.rows,
               highlights |-> hl, surface |-> Blank,
               eligible |-> IF d = "part_000" THEN 0 ELSE counts.cols * counts.rows] :
                  hl \in seeds}
    ELSE {cur}

\* The state of the refs and of w, h as resize() reads it
Current ==
    [w |-> w, h |-> h, cols |-> colsVisible, rows |-> rowsVisible,
     highlights |-> highlights, surface |-> surface, eligible |-> hist.eligible]

-----------------------------------------------------------------------------
(* The host's side of the component: frame callbacks, listeners, teardown *)

\* A frame callback requested with the id `id` by the effect run `run`
Request(id, run) == [id |-> id, run |-> run]

\* The listener of the media query (usePrefersReducedMotion, registered once)
MediaListener == <<"mq", 0>>

\* The resize listener (part_000) or ResizeObserver (part_001) of an effect run
ResizeListener(run) == <<"resize", run>>

\* After the render of a mount whose effect did not start a loop
Idle(kind) ==
    [mounted |-> TRUE, canvas |-> kind, run |-> 0, rafRef |-> 0, pending |-> {},
     listeners |-> {MediaListener}, error |-> FALSE]

\* resize(); addEventListener / observe; rafRef.current = requestAnimationFrame(frame)
StartLoop(s) ==
    [s EXCEPT !.rafRef = @ + 1,
              !.pending = @ \cup {Request(s.rafRef + 1, s.run)},
              !.listeners = @ \cup {ResizeListener(s.run)}]

\* A faulty cleanup that releases the listener and leaves the frame requested
CleanupKeepsFrame(s) == [s EXCEPT !.listeners = @ \ {ResizeListener(s.run)}]

\* The cleanup of the effect: cancelAnimationFrame(rafRef.current), then
\* removeEventListener (part_000) or ro.disconnect() (part_001)
Cleanup(s) ==
    [s EXCEPT !.pending = {f \in @ : f.id # s.rafRef},
              !.listeners = @ \ {ResizeListener(s.run)}]

\* The cleanup of the effect and its next run
Rerun(s) == StartLoop([Cleanup(s) EXCEPT !.run = @ + 1])

\* A faulty frame callback that returns without requesting the next frame
RescheduledNever(s, f) == [s EXCEPT !.pending = @ \ {f}]

\* The frame callback f ran and requested the next one
Rescheduled(s, f) ==
    [s EXCEPT !.rafRef = @ + 1,
              !.pending = (@ \ {f}) \cup {Request(s.rafRef + 1, f.run)}]

-----------------------------------------------------------------------------
(* Init: the first run of the effect *)

\* The component mounts as draft d with the props p in a host of size vp; kind is
\* "ok", or "none" when canvasRef.current is null, or "nocontext" when
\* canvas.getContext("2d") returns null
MountOn(kind, d, p, vp) ==
    /\ draft = d
    /\ props = p
    /\ reduced = FALSE
    /\ viewport = vp
    /\ now = 0
    /\ lastShuffle = 0
    /\ last = 0
    /\ acc = 0
    /\ off = 0
    /\ IF kind = "ok"
       THEN /\ \E r \in ResizeOutcomes(d, p,
                          [w |-> 0, h |-> 0, cols |-> 0, rows |-> 0,
                           highlights |-> {}, surface |-> Blank, eligible |-> 0],
                          vp[1], vp[2]) :
                  /\ w = r.w
                  /\ h = r.h
                  /\ colsVisible = r.cols
                  /\ rowsVisible = r.rows
                  /\ highlights = r.highlights
                  /\ surface = r.surface
                  /\ hist = [NoHistory EXCEPT !.eligible = r.eligible]
            /\ sched = StartLoop(Idle(kind))
       ELSE /\ colsVisible = 0
            /\ rowsVisible = 0
            /\ highlights = {}
            /\ surface = Blank
            /\ hist = NoHistory
            /\ IF kind = "none"
               THEN \* if (!canvas) return
                    /\ w = 0
                    /\ h = 0
                    /\ sched = Idle(kind)
               ELSE IF vp = <<0, 0>>
               THEN \* resize() finds the size unchanged and does not touch ctx
                    /\ w = 0
                    /\ h = 0
                    /\ sched = StartLoop(Idle(kind))
               ELSE \* resize() sizes the canvas, then ctx.setTransform throws
                    /\ w = vp[1]
                    /\ h = vp[2]
                    /\ sched = [Idle(kind) EXCEPT !.error = TRUE]

\* The component mounts on a canvas that exists and has a 2D context
Mount(d, p, vp) == MountOn("ok", d, p, vp)

Init == \E d \in Drafts, p \in Configs, vp \in Viewports : Mount(d, p, vp)

-----------------------------------------------------------------------------
(* Actions *)

\* The effect is cleaned up and run again with the props p and the signal red:
\* w, h, last, acc, off are new variables of the new closure, the refs stay
EffectRunWithin(p, red, maxEvents) ==
    /\ hist.events < maxEvents
    /\ sched.mounted
    /\ sched.canvas = "ok"
    /\ sched' = Rerun(sched)
    /\ props' = p
    /\ reduced' = red
    /\ \E r \in ResizeOutcomes(draft, p, [Current EXCEPT !.w = 0, !.h = 0],
                               viewport[1], viewport[2]) :
          /\ w' = r.w
          /\ h' = r.h
          /\ colsVisible' = r.cols
          /\ rowsVisible' = r.rows
          /\ highlights' = r.highlights
          /\ surface' = r.surface
          /\ hist' = [hist EXCEPT !.events = @ + 1, !.dt = 0, !.reshuffled = FALSE,
                                  !.eligible = r.eligible,
                                  !.elapsedMs = 0, !.advancedMs = 0]
    /\ last' = now
    /\ acc' = 0
    /\ off' = 0
    /\ UNCHANGED <<draft, viewport, now, lastShuffle>>

EffectRun(p, red) == EffectRunWithin(p, red, MaxEvents)

\* The media query changes: setPrefers, a render, and the effect runs again
MotionPreferenceChangeWithin(maxEvents) ==
    /\ MediaListener \in sched.listeners
    /\ EffectRunWithin(props, ~reduced, maxEvents)

MotionPreferenceChange == MotionPreferenceChangeWithin(MaxEvents)

\* The parent renders with other props (highlightCount is fixed for a mount)
PropChangeWithin(p, maxEvents) ==
    /\ p # props
    /\ p.highlightCount = props.highlightCount
    /\ EffectRunWithin(p, reduced, maxEvents)

PropChange(p) == PropChangeWithin(p, MaxEvents)

\* The host takes the size vp and the resize notification runs resize()
ResizeWithin(vp, maxEvents) ==
    /\ hist.events < maxEvents
    /\ sched.canvas = "ok"
    /\ ResizeListener(sched.run) \in sched.listeners
    /\ viewport' = vp
    /\ \E r \in ResizeOutcomes(draft, props, Current, vp[1], vp[2]) :
          /\ w' = r.w
          /\ h' = r.h
          /\ colsVisible' = r.cols
          /\ rowsVisible' = r.rows
          /\ highlights' = r.highlights
          /\ surface' = r.surface
          /\ hist' = LET was == [w |-> w, h |-> h, cols |-> colsVisible,
                                  rows |-> rowsVisible]
                     IN  IF r = Current
                         THEN [hist EXCEPT !.events = @ + 1, !.before = was]
                         ELSE [hist EXCEPT !.events = @ + 1, !.dt = 0,
                                           !.reshuffled = FALSE,
                                           !.eligible = r.eligible, !.before = was]
    /\ UNCHANGED <<draft, props, reduced, now, lastShuffle, last, acc, off, sched>>

Resize(vp) == ResizeWithin(vp, MaxEvents)

\* The component unmounts: the cleanups of both effects run
Unmount ==
    /\ sched.mounted
    /\ sched' = [Cleanup(sched) EXCEPT !.mounted = FALSE,
                                       !.listeners = @ \ {MediaListener}]
    /\ UNCHANGED <<draft, props, reduced, viewport, now, w, h, colsVisible,
                   rowsVisible, highlights, lastShuffle, last, acc, off, surface,
                   hist>>

\* Faulty variants of the frame arithmetic, each a slip the claims must notice
ClampDtUnclamped(gap) == gap
SkipsNever(accumulated, step) == FALSE
VelocityIgnoringSignal(p, red) == p.speed
AdvanceWholePixels(v, dtMs) == ((v * dtMs) \div 1000) * Scale
NextOffUnwrapped(p, o, v, dtMs) == o + (v * dtMs * Scale) \div 1000
ShuffleDueAtHalf(p, t, lastT) == t - lastT > p.highlightEveryMs \div 2

\* let dt = Math.min(64, now - last), ms
ClampDt(gap) == Min(DtClampMs, gap)

\* const step = 1 / targetFps, ms
StepMs(p) == 1000 \div p.targetFps

\* if (acc < step): the tick paints nothing
Skips(accumulated, step) == accumulated < step

\* const v = reduced ? 0 : speed
Velocity(p, red) == IF red THEN 0 ELSE p.speed

\* v * dt in units, dt in ms
Advance(v, dtMs) == (v * dtMs * Scale) \div 1000

\* off = (off + v * dt) % spacing
NextOff(p, o, v, dtMs) == JsMod(o + Advance(v, dtMs), spacingOf(p))

\* if (now - lastShuffleRef.current > highlightEveryMs), t being the frame's now
ShuffleDue(p, t, lastT) == t - lastT > p.highlightEveryMs

\* The Sets or Maps the time-gated call of a frame can leave in highlightsRef
FrameHighlights(d, p, hl, cols, rows, o, ww, hh) ==
    IF d = "part_000" THEN ManageOutcomes000(p, hl, rows, o, ww, hh)
    ELSE ReshuffleOutcomes001(p, cols, rows, o, ww, hh)

\* The number of tiles that call samples from
EligibleCount(d, p, cols, rows, o, ww, hh) ==
    IF d = "part_000" THEN Cardinality(Eligible000(p, rows, o, ww))
    ELSE Len(Candidates001(p, cols, rows, o, ww, hh))

\* The frame callback runs with the timestamp now + gap
FrameTick(gap, maxTicks) ==
    /\ hist.ticks < maxTicks
    /\ sched.canvas = "ok"
    /\ \E f \in sched.pending : f.run = sched.run /\ sched' = Rescheduled(sched, f)
    /\ now' = now + gap
    /\ last' = now'
    /\ LET dt0 == ClampDt(now' - last)
           capped == props.targetFps > 0
           accumulated == acc + dt0
       IN  IF capped /\ Skips(accumulated, StepMs(props))
           THEN /\ acc' = accumulated
                /\ hist' = [hist EXCEPT !.ticks = @ + 1, !.dt = 0, !.reshuffled = FALSE,
                                        !.elapsedMs = @ + dt0]
                /\ UNCHANGED <<off, highlights, lastShuffle, surface>>
           ELSE LET dt == IF capped THEN StepMs(props) ELSE dt0
                    off2 == NextOff(props, off, Velocity(props, reduced), dt)
                    due == ShuffleDue(props, now', lastShuffle)
                IN  /\ acc' = IF capped THEN accumulated % StepMs(props) ELSE acc
                    /\ off' = off2
                    /\ highlights' \in
                          IF due
                          THEN FrameHighlights(draft, props, highlights, colsVisible,
                                               rowsVisible, off2, w, h)
                          ELSE {highlights}
                    /\ lastShuffle' = IF due THEN now' ELSE lastShuffle
                    /\ surface' = [at |-> now', off |-> off2, w |-> w, h |-> h,
                                   cols |-> colsVisible, rows |-> rowsVisible,
                                   hl |-> HighlightKeys(draft, highlights')]
                    /\ hist' =
                          [ticks |-> hist.ticks + 1,
                           events |-> hist.events,
                           dt |-> dt,
                           reshuffled |-> due,
                           eligible |-> IF due
                                        THEN EligibleCount(draft, props, colsVisible,
                                                           rowsVisible, off2, w, h)
                                        ELSE hist.eligible,
                           sampledAt |-> IF due THEN now' ELSE hist.sampledAt,
                           sampled |-> IF due
                                       THEN FlaggedTiles(draft, colsVisible, rowsVisible,
                                                HighlightKeys(draft, highlights'))
                                       ELSE hist.sampled,
                           elapsedMs |-> hist.elapsedMs + dt0,
                           advancedMs |-> hist.advancedMs + dt,
                           before |-> hist.before]
    /\ UNCHANGED <<draft, props, reduced, viewport, w, h, colsVisible, rowsVisible>>

Next ==
    \/ \E gap \in FrameGaps : FrameTick(gap, MaxTicks)
    \/ \E vp \in Viewports : Resize(vp)
    \/ MotionPreferenceChange
    \/ \E p \in Configs : PropChange(p)

Spec == Init /\ [][Next]_vars

-----------------------------------------------------------------------------
(* The frames of one mount on a large host: what the window of a frame reaches *)

MaxCoverageTicks == 3
CoverageGrid == 4

\* sqrt(2) times the lattice coordinate u of the screen point (x, y) px: the inverse
\* of x = u cos - vRow sin, y = u sin + vRow cos, about the centre in part_000
PointU2(d, x, y, ww, hh) ==
    IF d = "part_000" THEN (((2 * y - hh) - (2 * x - ww)) * Scale) \div 2
    ELSE (x + y) * Scale

\* sqrt(2) times the lattice coordinate v of the screen point (x, y) px
PointV2(d, x, y, ww, hh) ==
    IF d = "part_000" THEN (-((2 * x - ww) + (2 * y - hh)) * Scale) \div 2
    ELSE (y - x) * Scale

\* The point lies in the lattice cell of the tile (r, c): within half a spacing of
\* its centre (u, vRow) along both lattice axes. The tile's fill area, the diamond
\* of half-diagonal `half` about the centre, lies inside the cell.
InCell(p, r, c, o, U2, V2) ==
    /\ ~LtRoot2(U2, TileU(p, r, c, o) - spacingOf(p) \div 2)
    /\ ~GtRoot2(U2, TileU(p, r, c, o) + spacingOf(p) \div 2)
    /\ ~LtRoot2(V2, vRowOf(p, r) - rowStrideOf(p) \div 2)
    /\ ~GtRoot2(V2, vRowOf(p, r) + rowStrideOf(p) \div 2)

\* Points of the rectangle (0,0)-(ww,hh): its corners, its edges, its inside
CoveragePoints(ww, hh) ==
    {<<(i * ww) \div CoverageGrid, (j * hh) \div CoverageGrid>> :
        i \in 0..CoverageGrid, j \in 0..CoverageGrid}

\* The points of the painted rectangle that no tile of the frame's window reaches
Uncovered(d, p, f) ==
    {pt \in CoveragePoints(f.w, f.h) :
        ~\E t \in WindowTiles(d, f.cols, f.rows) :
            InCell(p, t[1], t[2], f.off, PointU2(d, pt[1], pt[2], f.w, f.h),
                   PointV2(d, pt[1], pt[2], f.w, f.h))}

\* Hosts of the size of a page, px
CoverageViewports == {<<88, 44>>, <<400, 300>>}

\* A fast scroll, in both directions, so that few frames spread over [0, spacing)
CoverageConfigs ==
    {[DefaultProps EXCEPT !.speed = 375],
     [DefaultProps EXCEPT !.speed = 375, !.direction = "SW_NE"]}

CoverageGaps == {16, 64}

InitCoverage ==
    \E d \in Drafts, p \in CoverageConfigs, vp \in CoverageViewports : Mount(d, p, vp)

NextCoverage == \E gap \in CoverageGaps : FrameTick(gap, MaxCoverageTicks)

SpecCoverage == InitCoverage /\ [][NextCoverage]_vars

-----------------------------------------------------------------------------
(* The frames of one mount of part_001 in a narrow host: what a reshuffle picks *)

\* A portrait host one tile wide, in which three tiles are visible
SampleViewport == <<44, 88>>

SampleConfigs ==
    {DefaultProps, [DefaultProps EXCEPT !.direction = "SW_NE"], FewHighlights}

InitSample == \E p \in SampleConfigs : Mount("part_001", p, SampleViewport)

NextSample == \E gap \in FrameGaps : FrameTick(gap, MaxTicks)

SpecSample == InitSample /\ [][NextSample]_vars

-----------------------------------------------------------------------------
(* The frames of one mount over seconds: what the offset adds up to *)

\* The defaults, uncapped and capped at 25 and at 10 frames a second
ClockConfigs ==
    {DefaultProps,
     [DefaultProps EXCEPT !.targetFps = 25],
     [DefaultProps EXCEPT !.targetFps = 10]}

\* A steady 25 Hz, and a return from the background
ClockGaps == {40, 200}

InitClock == \E d \in Drafts, p \in ClockConfigs : Mount(d, p, <<0, 0>>)

NextClock == \E gap \in ClockGaps : FrameTick(gap, MaxClockTicks)

SpecClock == InitClock /\ [][NextClock]_vars

-----------------------------------------------------------------------------
(* The frames of one mount in a host of the size of a page, with the long  *)
(* gaps that make a reshuffle or a spawn due                               *)

MaxPageTicks == 3

PageViewports == {<<400, 300>>}

PageConfigs ==
    {[FewHighlights EXCEPT !.speed = 375],
     [FewHighlights EXCEPT !.speed = 375, !.direction = "SW_NE"]}

InitPage ==
    \E d \in Drafts, p \in PageConfigs, vp \in PageViewports : Mount(d, p, vp)

NextPage == \E gap \in FrameGaps : FrameTick(gap, MaxPageTicks)

SpecPage == InitPage /\ [][NextPage]_vars

-----------------------------------------------------------------------------
(* The life of one mount up to its unmount: frames, resizes, re-runs of the *)
(* effect and the teardown, in every order                                 *)

MaxTeardownTicks == 3

\* No highlights: the scheduling does not depend on them
TeardownConfigs ==
    {[DefaultProps EXCEPT !.highlightCount = 0],
     [DefaultProps EXCEPT !.highlightCount = 0, !.targetFps = 10]}

InitTeardown ==
    \E d \in Drafts, p \in TeardownConfigs, vp \in Viewports : Mount(d, p, vp)

NextTeardown ==
    \/ \E gap \in FrameGaps : FrameTick(gap, MaxTeardownTicks)
    \/ \E vp \in Viewports : Resize(vp)
    \/ MotionPreferenceChange
    \/ \E p \in TeardownConfigs : PropChange(p)
    \/ Unmount

SpecTeardown == InitTeardown /\ [][NextTeardown]_vars

-----------------------------------------------------------------------------
(* Mounts on a drawing surface that may be unavailable                     *)

MaxSurfaceTicks == 3

\* canvasRef.current and canvas.getContext("2d"): both there, no element, no context
CanvasKinds == {"ok", "none", "nocontext"}

\* A frame callback of a mount whose ctx is null: a tick the FPS cap skips does
\* not touch ctx and requests the next frame; any other throws at ctx.clearRect,
\* before off changes and before the next frame is requested
FrameThrows(gap) ==
    /\ hist.ticks < MaxSurfaceTicks
    /\ sched.canvas = "nocontext"
    /\ now' = now + gap
    /\ last' = now'
    /\ \E f \in sched.pending :
          /\ f.run = sched.run
          /\ LET dt0 == ClampDt(now' - last)
                 capped == props.targetFps > 0
                 accumulated == acc + dt0
             IN  IF capped /\ Skips(accumulated, StepMs(props))
                 THEN /\ acc' = accumulated
                      /\ sched' = Rescheduled(sched, f)
                 ELSE /\ acc' = IF capped THEN accumulated % StepMs(props) ELSE acc
                      /\ sched' = [sched EXCEPT !.pending = @ \ {f}, !.error = TRUE]
    /\ hist' = [hist EXCEPT !.ticks = @ + 1]
    /\ UNCHANGED <<draft, props, reduced, viewport, w, h, colsVisible, rowsVisible,
                   highlights, lastShuffle, off, surface>>

\* The resize notification of a mount whose ctx is null: a changed size is stored
\* and the canvas sized, then ctx.setTransform throws before the counts are computed
ResizeThrows(vp) ==
    /\ hist.events < MaxEvents
    /\ sched.canvas = "nocontext"
    /\ ResizeListener(sched.run) \in sched.listeners
    /\ viewport' = vp
    /\ w' = vp[1]
    /\ h' = vp[2]
    /\ sched' = IF vp # <<w, h>> THEN [sched EXCEPT !.error = TRUE] ELSE sched
    /\ hist' = [hist EXCEPT !.events = @ + 1]
    /\ UNCHANGED <<draft, props, reduced, now, colsVisible, rowsVisible, highlights,
                   lastShuffle, last, acc, off, surface>>

InitSurface ==
    \E kind \in CanvasKinds, d \in Drafts, p \in TeardownConfigs, vp \in Viewports :
        MountOn(kind, d, p, vp)

NextSurface ==
    \/ \E gap \in FrameGaps : FrameTick(gap, MaxSurfaceTicks)
    \/ \E gap \in FrameGaps : FrameThrows(gap)
    \/ \E vp \in Viewports : Resize(vp)
    \/ \E vp \in Viewports : ResizeThrows(vp)

SpecSurface == InitSurface /\ [][NextSurface]_vars

-----------------------------------------------------------------------------
(* The frames of one mount whose props give a spacing below zero, in a     *)
(* host of size 0x0 (no coverage counts are computed at mount)             *)

MaxDegenerateTicks == 8

\* diamondSize + gap = -4 and -8
DegenerateConfigs ==
    {[FewHighlights EXCEPT !.gap = -24, !.speed = 375],
     [FewHighlights EXCEPT !.gap = -28, !.speed = 375]}

InitDegenerate ==
    \E d \in Drafts, p \in DegenerateConfigs : Mount(d, p, <<0, 0>>)

NextDegenerate == \E gap \in CoverageGaps : FrameTick(gap, MaxDegenerateTicks)

SpecDegenerate == InitDegenerate /\ [][NextDegenerate]_vars

-----------------------------------------------------------------------------
(* The resizes of one mount: what computeCoverageCounts makes of the sizes *)

\* Sizes of a desktop window, a phone, a square, a strip, small hosts, px
ResizeViewports ==
    {<<1920, 1080>>, <<320, 480>>, <<100, 100>>, <<1000, 5>>, <<400, 300>>,
     <<88, 44>>, <<44, 88>>, <<0, 0>>}

\* No highlights: the counts do not depend on them
ResizeConfigs == {[DefaultProps EXCEPT !.highlightCount = 0]}

InitResize ==
    \E d \in Drafts, p \in ResizeConfigs, vp \in ResizeViewports : Mount(d, p, vp)

NextResize == \E vp \in ResizeViewports : Resize(vp)

SpecResize == InitResize /\ [][NextResize]_vars

-----------------------------------------------------------------------------
(* The frames of one mount over several reshuffle intervals, with and      *)
(* without an FPS cap.  The browser keeps calling a requested frame        *)
(* callback while the page is shown: weak fairness of the frame step.      *)

MaxScheduleTicks == 6

ScheduleConfigs == {FewHighlights, [FewHighlights EXCEPT !.targetFps = 10]}

\* now - last of a frame callback: a slow refresh, or a return from the background
ScheduleGaps == {64, 6000}

\* The draft and the host of a mount; part_001 in the empty host only, where its
\* reshuffle finds no candidate, which keeps the fair runs small
ScheduleMounts ==
    {<<"part_000", <<0, 0>>>>, <<"part_000", <<44, 88>>>>, <<"part_001", <<0, 0>>>>}

InitSchedule ==
    \E m \in ScheduleMounts, p \in ScheduleConfigs : Mount(m[1], p, m[2])

NextSchedule == \E gap \in ScheduleGaps : FrameTick(gap, MaxScheduleTicks)

SpecSchedule == InitSchedule /\ [][NextSchedule]_vars /\ WF_vars(NextSchedule)

-----------------------------------------------------------------------------
(* The fast scroll: part_000 under frames that each cross the screen *)

MaxTransitTicks == 6

\* speed px/s such that one clamped frame (64 ms) scrolls further than the
\* transit distance of either host (88 px and about 186.4 px)
TransitSpeeds == {3000, 6000}

TransitConfigs ==
    {[c EXCEPT !.speed = s, !.direction = dir] :
        c \in {FewHighlights, DefaultProps}, s \in TransitSpeeds, dir \in {"NE_SW", "NW_SE"}}

\* Every frame comes after more than highlightEveryMs, so each one manages the Map
TransitGaps == {10016, 20000}

InitTransit ==
    \E p \in TransitConfigs, vp \in Viewports : Mount("part_000", p, vp)

NextTransit == \E gap \in TransitGaps : FrameTick(gap, MaxTransitTicks)

SpecTransit == InitTransit /\ [][NextTransit]_vars /\ WF_vars(NextTransit)

-----------------------------------------------------------------------------
(* The loop under several events *)

MaxLoopTicks == 3
MaxLoopEvents == 3

InitLoop ==
    \E d \in Drafts, p \in TeardownConfigs, vp \in Viewports : Mount(d, p, vp)

NextLoop ==
    \/ \E gap \in FrameGaps : FrameTick(gap, MaxLoopTicks)
    \/ \E vp \in Viewports : ResizeWithin(vp, MaxLoopEvents)
    \/ MotionPreferenceChangeWithin(MaxLoopEvents)
    \/ \E p \in TeardownConfigs : PropChangeWithin(p, MaxLoopEvents)

SpecLoop == InitLoop /\ [][NextLoop]_vars

-----------------------------------------------------------------------------
(* The lattice under every direction *)

MaxParityTicks == 4

\* The documented values of direction, and one that is neither
Directions == {"NE_SW", "SW_NE", "ne_sw"}

ParityConfigs ==
    {[DefaultProps EXCEPT !.highlightCount = 0, !.speed = s, !.direction = dir] :
        s \in {375, -10}, dir \in Directions}

InitParity ==
    \E d \in Drafts, p \in ParityConfigs : Mount(d, p, SampleViewport)

NextParity == \E gap \in CoverageGaps : FrameTick(gap, MaxParityTicks)

SpecParity == InitParity /\ [][NextParity]_vars

-----------------------------------------------------------------------------
(* Claims *)

\* C1 (as claimed): the highlight set never holds more than highlightCount keys,
\* nor more keys than there were eligible tiles when it was last sampled.
C1_HighlightBound ==
    /\ Cardinality(HighlightKeys(draft, highlights)) <= props.highlightCount
    /\ Cardinality(HighlightKeys(draft, highlights)) <= hist.eligible

\* C2 (as claimed): every tile flagged at the last timed sampling t0 is flagged,
\* under the same lattice index, in each frame painted in [t0, t0 + highlightEveryMs).
C2_StabilityWindow ==
    (/\ hist.sampledAt >= 0
     /\ surface.at >= hist.sampledAt
     /\ surface.at < hist.sampledAt + props.highlightEveryMs)
    => hist.sampled \subseteq FlaggedTiles(draft, surface.cols, surface.rows, surface.hl)

\* C3 (as claimed): a frame that reshuffles installs a sample drawn afresh, one
\* the call could have produced from an empty set: nothing is kept from before.
C3_WholesaleReplacement ==
    [][(hist'.ticks # hist.ticks /\ hist'.reshuffled)
         => highlights' \in FrameHighlights(draft, props, {}, colsVisible, rowsVisible,
                                            off', w, h)]_vars

\* C4 (as claimed): a reshuffle of part_001 over the eligible set E installs exactly
\* min(highlightCount, |E|) keys, whatever the random source returns.
C4_SampleSize ==
    (draft = "part_001" /\ hist.reshuffled)
    => Cardinality(highlights) = Min(props.highlightCount, hist.eligible)

\* The example of C4: highlightCount = 6 and 3 eligible tiles give a set of size 3
C4_SixOfThree ==
    (/\ draft = "part_001"
     /\ hist.reshuffled
     /\ props.highlightCount = 6
     /\ hist.eligible = 3)
    => Cardinality(highlights) = 3

\* C5 (as claimed): in every painted frame, whatever the viewport size, the scroll
\* offset and the row parity, each point of the rectangle (0,0)-(w,h) is reached by
\* a tile of the window derived from (cols, rows). Stated with the lattice cell of
\* a tile, which contains its fill area: a point outside every cell is outside
\* every fill area.
C5_CoverageComplete ==
    surface.at >= 0 => Uncovered(draft, props, surface) = {}

\* part_000 of C5: the window about the centre of the viewport reaches every point
C5_CoverageComplete000 ==
    (draft = "part_000" /\ surface.at >= 0) => Uncovered(draft, props, surface) = {}

\* C6: while the reduced-motion signal is true a frame callback leaves the scroll
\* offset as it was, and a painted frame that comes more than highlightEveryMs
\* after the last reshuffle reshuffles and stamps lastShuffle with its timestamp.
C6_MotionReduction ==
    [][(now' # now /\ reduced)
         => /\ off' = off
            /\ (surface'.at = now' /\ now' - lastShuffle > props.highlightEveryMs)
                 => /\ lastShuffle' = now'
                    /\ highlights' \in FrameHighlights(draft, props, highlights,
                                          colsVisible, rowsVisible, off, w, h)]_vars

\* C6 happens: under reduced motion a frame was painted and it reshuffled
C6_ReducedFrameReshuffled ==
    reduced /\ hist.ticks > 0 /\ surface.at = now /\ hist.reshuffled /\ lastShuffle = now

\* C7 (as claimed): the scroll offset is always in [0, spacing).
C7_OffsetRange == 0 <= off /\ off < spacingOf(props)

\* C7 (amended): the scroll offset is always strictly between -spacing and spacing,
\* and is in [0, spacing) when the configured speed is not negative.
C7_OffsetRangeSigned ==
    /\ -spacingOf(props) < off
    /\ off < spacingOf(props)
    /\ props.speed >= 0 => off >= 0

\* C7 happens: a painted frame carried the offset past spacing and wrapped it
C7_Wrapped ==
    /\ ~reduced
    /\ props.speed > 0
    /\ hist.dt > 0
    /\ surface.at = now
    /\ off < Advance(props.speed, hist.dt)

\* C8 (as claimed): after a painted frame the scroll offset is speed x the clamped
\* time elapsed over the frame callbacks so far, modulo spacing, with or without an
\* FPS cap.
C8_Accumulation ==
    surface.at = now
    => off = JsMod(Advance(props.speed, hist.elapsedMs), spacingOf(props))

\* C8 (amended): the scroll offset is speed x the time the painted frames applied,
\* modulo spacing; that time is the clamped elapsed time when targetFps is 0, and
\* under an FPS cap, where a painted frame applies 1/targetFps, it is no more than
\* the clamped elapsed time less the time still accumulated in acc.
C8_AccumulationApplied ==
    /\ off = ((props.speed * hist.advancedMs * Scale) \div 1000) % spacingOf(props)
    /\ hist.advancedMs + acc <= hist.elapsedMs
    /\ props.targetFps = 0 => hist.advancedMs = hist.elapsedMs

\* C8 happens: spacing 44, speed 10, uncapped frames totalling 4.4 s, offset 0 again
C8_FullPeriod ==
    /\ props.targetFps = 0
    /\ props.speed = 10
    /\ spacingOf(props) = 44 * Scale
    /\ hist.elapsedMs = 4400
    /\ surface.at = now
    /\ off = 0

\* C9 (as claimed): the time delta a frame applies to the offset is at most 64 ms,
\* whatever targetFps is.
C9_DtClamp == hist.dt <= DtClampMs

\* C9 (amended): without an FPS cap the time delta a frame applies is at most 64 ms;
\* under a cap it is 1/targetFps, which exceeds 64 ms when targetFps < 15.625.
C9_DtClampUncapped ==
    /\ props.targetFps <= 0 => hist.dt <= DtClampMs
    /\ props.targetFps > 0 => hist.dt \in {0, StepMs(props)}

\* C9 happens: an uncapped frame came 10 s after the previous one and applied 64 ms
C9_LongGapClamped ==
    /\ props.targetFps = 0
    /\ surface.at = now
    /\ now >= 10016
    /\ hist.ticks = 1
    /\ hist.dt = DtClampMs

\* C10: under an FPS cap a frame callback whose accumulated time is below 1/targetFps
\* leaves offset, highlight set, reshuffle timestamp and surface as they were; with
\* targetFps = 0 every frame callback advances the offset and paints.
C10_FpsCap ==
    [][now' # now
         => LET dt0 == Min(DtClampMs, now' - last)
            IN  /\ (props.targetFps > 0 /\ acc + dt0 < 1000 \div props.targetFps)
                     => UNCHANGED <<off, highlights, lastShuffle, surface>>
                /\ props.targetFps = 0
                     => /\ surface'.at = now'
                        /\ surface'.off = off'
                        /\ off' = JsMod(off + ((IF reduced THEN 0 ELSE props.speed)
                                                  * dt0 * Scale) \div 1000,
                                        spacingOf(props))]_vars

\* C10 happens: the first frame callback of a capped mount came early and painted nothing
C10_EarlyTickSkipped ==
    /\ props.targetFps > 0
    /\ hist.ticks = 1
    /\ hist.events = 0
    /\ now > 0
    /\ acc > 0
    /\ surface = Blank

\* C11: teardown. Every frame callback still pending was requested by the
\* current run of the effect of a mounted component and is the one rafRef.current
\* names, so no callback of a torn-down loop is left to run; at most one frame
\* callback is pending; the only listeners registered are the media-query
\* listener and the resize listener of the current run, and none after unmount.
C11_Teardown ==
    /\ \A f \in sched.pending :
           sched.mounted /\ f.run = sched.run /\ f.id = sched.rafRef
    /\ Cardinality(sched.pending) <= 1
    /\ sched.listeners \subseteq
           (IF sched.mounted THEN {MediaListener, ResizeListener(sched.run)}
                             ELSE {})

\* The effect ran again, frames ran, and the component unmounted
C11_TornDownAfterFrames ==
    ~sched.mounted /\ sched.run > 0 /\ hist.ticks > 0 /\ sched.rafRef > 2

\* The tiles of the window of a painted frame f that the frame looks up under key k
TilesKeyed(d, f, k) ==
    {t \in WindowTiles(d, f.cols, f.rows) : TileKey(d, t[1], t[2], f.cols, f.rows) = k}

\* C12 (as claimed): in every painted frame each key of the highlight set is the
\* key the render loop computes for exactly one tile of the window it iterates.
C12_KeyingDiscipline ==
    surface # Blank =>
        \A k \in surface.hl :
            Cardinality(TilesKeyed(draft, surface, k)) = 1

\* C12 for part_001 alone: the keys of seeding and of the visible reshuffle are
\* keys of window tiles.
C12_KeyingDiscipline001 ==
    draft = "part_001" => C12_KeyingDiscipline

\* The tiles for which the painted frame f called drawDiamondScreen: every tile of
\* the window in part_000, the tiles the culling test lets through in part_001
Fills(d, p, f) ==
    {t \in WindowTiles(d, f.cols, f.rows) :
        d = "part_000" \/
        ~Culled001(p, TileU(p, t[1], t[2], f.off), vRowOf(p, t[1]), f.w, f.h)}

\* C13 (as claimed): a frame painted in a viewport of width 0 and height 0 finds
\* cols = 0 and rows = 0 and fills no tile; no exception escapes.
C13_ZeroViewport ==
    /\ ~sched.error
    /\ (surface # Blank /\ surface.w = 0 /\ surface.h = 0) =>
           /\ surface.cols = 0
           /\ surface.rows = 0
           /\ Fills(draft, props, surface) = {}

\* C13, the part that holds: a frame in a zero-size viewport that was zero-size
\* at mount finds cols = 0 and rows = 0, and nothing throws.
C13_ZeroAtMount ==
    /\ ~sched.error
    /\ (surface # Blank /\ surface.w = 0 /\ surface.h = 0 /\ hist.events = 0) =>
           surface.cols = 0 /\ surface.rows = 0

\* C14 (as claimed): when diamondSize + gap <= 0 no frame advances the offset or
\* iterates tiles with that spacing: nothing is painted and the offset stays 0.
C14_SpacingRejected ==
    spacingOf(props) <= 0 => surface = Blank /\ off = 0

\* computeCoverageCounts(width, height) of the draft d: the counts it stores
CoverageCounts(d, p, width, height) ==
    IF d = "part_000" THEN CoverageCounts000(p, width, height)
    ELSE CoverageCounts001(p, width, height)

\* (cols, rows) are the coverage counts of the current viewport (w, h)
CountsCurrent ==
    LET counts == CoverageCounts(draft, props, w, h)
    IN  colsVisible = counts.cols /\ rowsVisible = counts.rows

\* C15 (as claimed): every frame runs with (cols, rows) equal to the coverage
\* counts of the viewport (w, h) it runs in.
C15_CountsFollowViewport ==
    hist.ticks > 0 => CountsCurrent

\* C15, the part that holds: the counts are those of the viewport whenever the
\* viewport is not 0x0, and (w, h) is the size of the host.
C15_CountsFollowNonZero ==
    /\ (sched.mounted => <<w, h>> = viewport)
    /\ (<<w, h>> # <<0, 0>> => CountsCurrent)

\* C15, the part that holds: a frame never changes cols or rows.
C15_FrameKeepsCounts ==
    [][hist'.ticks # hist.ticks => UNCHANGED <<colsVisible, rowsVisible, w, h>>]_vars

\* The last resize went from a 1920x1080 viewport to a 320x480 one
ShrunkFromDesktop ==
    /\ hist.before.w = 1920 /\ hist.before.h = 1080
    /\ w = 320 /\ h = 480

\* Neither count is larger than before the last resize, and both are smaller
\* when that resize went from 1920x1080 to 320x480
CountsShrunk ==
    /\ colsVisible <= hist.before.cols
    /\ rowsVisible <= hist.before.rows
    /\ ShrunkFromDesktop =>
           colsVisible < hist.before.cols /\ rowsVisible < hist.before.rows

\* C16 (as claimed): after a resize that reduced the area of the viewport neither
\* cols nor rows is larger than before, and from 1920x1080 to 320x480 both are
\* smaller.
C16_AreaMonotone ==
    (hist.before # NoResize /\ w * h < hist.before.w * hist.before.h)
        => CountsShrunk

\* C16 (amended): after a resize that increased neither the width nor the height
\* of the viewport neither cols nor rows is larger than before, and from
\* 1920x1080 to 320x480 both are smaller.
C16_SideMonotone ==
    (hist.before # NoResize /\ w <= hist.before.w /\ h <= hist.before.h)
        => CountsShrunk

\* A resize from 1920x1080 to 320x480 happened
C16_ShrunkFromDesktop == ShrunkFromDesktop /\ colsVisible > 0

\* sqrt(2) times the screen offset of the lattice point (u, v) from the lattice's
\* anchor: the viewport's origin in part_001 (x = u cos - v sin, theta = 45), its
\* centre in part_000 (x = u cos - v sin + w/2, theta = 135)
RelX2(d, u, v) == IF d = "part_000" THEN -u - v ELSE u - v
RelY2(d, u, v) == IF d = "part_000" THEN u - v ELSE u + v

\* The screen position of the lattice point (u, v) lies in the viewport ww x hh px
\* extended by the margin m (units) on every side
OnScreen(d, u, v, ww, hh, m) ==
    IF d = "part_000"
    THEN /\ ~LtRoot2(2 * RelX2(d, u, v), -(ww * Scale + 2 * m))
         /\ ~GtRoot2(2 * RelX2(d, u, v), ww * Scale + 2 * m)
         /\ ~LtRoot2(2 * RelY2(d, u, v), -(hh * Scale + 2 * m))
         /\ ~GtRoot2(2 * RelY2(d, u, v), hh * Scale + 2 * m)
    ELSE /\ ~LtRoot2(RelX2(d, u, v), -m)
         /\ ~GtRoot2(RelX2(d, u, v), ww * Scale + m)
         /\ ~LtRoot2(RelY2(d, u, v), -m)
         /\ ~GtRoot2(RelY2(d, u, v), hh * Scale + m)

\* The positions, as lattice points (u, vRow), of the tiles the window of the
\* painted frame f gives at the offset o that fall inside the viewport
PositionsInside(d, p, f, o) ==
    {pos \in {<<TileU(p, t[1], t[2], o), vRowOf(p, t[1])>> :
                 t \in WindowTiles(d, f.cols, f.rows)} :
        OnScreen(d, pos[1], pos[2], f.w, f.h, 0)}

\* C17 (as claimed): the tile positions inside the viewport are the same when the
\* frame's window is rendered at its offset o and at o + spacing.
C17_SeamlessWrap ==
    surface # Blank =>
        PositionsInside(draft, props, surface, surface.off)
            = PositionsInside(draft, props, surface, surface.off + spacingOf(props))

\* C17 for part_000 alone, whose window reaches past every edge of the viewport
C17_SeamlessWrap000 ==
    draft = "part_000" => C17_SeamlessWrap

\* The component has done no work: no resize listener or observer is registered,
\* no frame is requested or has run, and no exception has escaped
NoWork ==
    /\ ResizeListener(sched.run) \notin sched.listeners
    /\ sched.pending = {}
    /\ hist.ticks = 0
    /\ ~sched.error

\* C18 (as claimed): a mount whose canvas element or whose 2D context is
\* unavailable does no work.
C18_UnavailableSurface ==
    sched.canvas # "ok" => NoWork

\* C18, the part that holds: a mount without a canvas element does no work.
C18_NoCanvasElement ==
    sched.canvas = "none" => NoWork

\* How far past the window, in indices, the tiles are examined
IndexSlack == 3

\* The indices from IndexSlack before the window of n to IndexSlack past it
NearWindow(d, n) ==
    LET k == IF d = "part_000" THEN WindowMargin000 ELSE WindowMargin001
    IN  (WindowStart(n, k) - IndexSlack)..(WindowEnd(n, k) - 1 + IndexSlack)

\* The fill area of a tile centred on the lattice point (u, v), the diamond
\* |x - cx| + |y - cy| <= half that diamondPath traces, meets the rectangle
\* (0,0)-(ww,hh): the distances from the centre to the rectangle along x and along
\* y add up to at most half. Each comparison is doubled, and is of an integer
\* with a multiple of sqrt(2).
FillTouches(d, p, u, v, ww, hh) ==
    LET X == 2 * RelX2(d, u, v)
        Y == 2 * RelY2(d, u, v)
        c == 2 * halfOf(p)
        lx == IF d = "part_000" THEN ww * Scale ELSE 0
        ux == IF d = "part_000" THEN ww * Scale ELSE 2 * ww * Scale
        ly == IF d = "part_000" THEN hh * Scale ELSE 0
        uy == IF d = "part_000" THEN hh * Scale ELSE 2 * hh * Scale
    IN  /\ ~GtRoot2(-X, c + lx)
        /\ ~GtRoot2(X, c + ux)
        /\ ~GtRoot2(-Y, c + ly)
        /\ ~GtRoot2(Y, c + uy)
        /\ ~GtRoot2(-X - Y, c + lx + ly)
        /\ ~GtRoot2(Y - X, c + lx + uy)
        /\ ~GtRoot2(X - Y, c + ux + ly)
        /\ ~GtRoot2(X + Y, c + ux + uy)

\* The tiles in or near the window of the painted frame f whose fill area meets
\* the viewport
TouchingTiles(d, p, f) ==
    {t \in NearWindow(d, f.rows) \X NearWindow(d, f.cols) :
        FillTouches(d, p, TileU(p, t[1], t[2], f.off), vRowOf(p, t[1]), f.w, f.h)}

\* C19 (as claimed): in every painted frame every tile whose fill area meets the
\* viewport has its index inside the window the frame iterates.
C19_WindowSufficient ==
    surface # Blank =>
        TouchingTiles(draft, props, surface)
            \subseteq WindowTiles(draft, surface.cols, surface.rows)

\* C19 for part_000 alone (k = 5, lattice anchored at the viewport centre)
C19_WindowSufficient000 ==
    draft = "part_000" => C19_WindowSufficient

\* The widest margin either draft allows around the viewport, in units: the
\* culling margin diamondSize in part_001 (the reshuffle's own pad is half), the
\* coverage padding of three spacings in part_000
PaddingMargin(d, p) ==
    IF d = "part_000" THEN CoveragePadSpacings000 * spacingOf(p) ELSE diamondSizeOf(p)

\* The keys the painted frame installed: the entries a spawn made at this offset
\* (part_000), the whole Set after a reshuffle or a seeding (part_001)
InstalledKeys ==
    IF draft = "part_000"
    THEN {e.key : e \in {e2 \in highlights : e2.startOffset = surface.off}}
    ELSE surface.hl

\* The key k denotes a tile of the painted frame f that lies within the viewport
\* extended by the margin and that the frame filled
DenotesDrawnTile(d, p, f, k) ==
    \E t \in TilesKeyed(d, f, k) :
        /\ OnScreen(d, TileU(p, t[1], t[2], f.off), vRowOf(p, t[1]), f.w, f.h,
                    PaddingMargin(d, p))
        /\ t \in Fills(d, p, f)

\* C20 (as claimed): in the frame that installs them (the frame of a reshuffle or
\* of a spawn, or the first frame after the seeding of a mount), every key put
\* into the highlight set denotes a tile within the viewport extended by the
\* margin, and that tile is drawn.
C20_SampledFromVisible ==
    (surface # Blank /\ surface.at = now /\ (hist.reshuffled \/ hist.ticks = 1)) =>
        \A k \in InstalledKeys : DenotesDrawnTile(draft, props, surface, k)

\* C20 for the timed reshuffle of part_001 alone
C20_ReshuffleVisible001 ==
    (draft = "part_001" /\ surface # Blank /\ surface.at = now /\ hist.reshuffled) =>
        \A k \in InstalledKeys : DenotesDrawnTile(draft, props, surface, k)

\* The last frame callback painted (the FPS cap did not skip it)
Rendered == surface # Blank /\ surface.at = now

\* More than highlightEveryMs have passed since the last reshuffle or spawn
Overdue == ShuffleDue(props, now, lastShuffle)

\* C21: reshuffle schedule. A rendered frame leaves no reshuffle overdue: if its
\* timestamp exceeded the last reshuffle time by more than highlightEveryMs it
\* made the time-gated call and recorded its own timestamp. The last-reshuffle
\* time changes only in such a frame, so two consecutive timed reshuffles are more
\* than highlightEveryMs apart. While frames keep coming, a reshuffle that is
\* overdue (after ticks the FPS cap skipped) is performed.
C21_ReshuffleSchedule ==
    /\ [](Rendered => ~Overdue /\ (hist.reshuffled <=> lastShuffle = now /\ now > 0))
    /\ [][lastShuffle' # lastShuffle =>
              /\ lastShuffle' = now'
              /\ hist'.reshuffled
              /\ lastShuffle' - lastShuffle > props.highlightEveryMs]_vars
    /\ ((Overdue /\ hist.ticks + 2 <= MaxScheduleTicks)
            ~> (Rendered /\ hist.reshuffled /\ lastShuffle = now))

\* A second timed reshuffle was performed, after ticks the FPS cap skipped
C21_SecondReshuffle ==
    /\ Rendered /\ hist.reshuffled
    /\ lastShuffle > 2 * props.highlightEveryMs
    /\ props.targetFps > 0

\* The scroll of one clamped frame, and the offset the first frame leaves
FrameScroll(p) == Abs(Advance(p.speed, DtClampMs))
FirstOffset(p) == NextOff(p, 0, p.speed, DtClampMs)

\* The entries of the Map hl that the first frame spawned
FirstSpawned(p, hl) == {e \in hl : e.startOffset = FirstOffset(p)}

\* sqrt(w*w + h*h) + spacing * 2 < the scroll of one frame
FrameCrossesScreen(p, ww, hh) ==
    /\ FrameScroll(p) > spacingOf(p) * 2
    /\ (FrameScroll(p) - spacingOf(p) * 2) * (FrameScroll(p) - spacingOf(p) * 2)
           > (ww * ww + hh * hh) * Scale * Scale

\* The Map of part_000 holds entries of the first frame, under a fast scroll
FirstSpawnedHeld ==
    /\ draft = "part_000" /\ props.speed > 0 /\ FrameCrossesScreen(props, w, h)
    /\ FirstSpawned(props, highlights) # {}

FirstSpawnedGone == FirstSpawned(props, highlights) = {}

\* C22 (as claimed): bounded highlight lifetime in part_000. While frames keep
\* running with speed > 0, each of them scrolling further than the transit
\* distance and each of them managing the Map, the entries the first frame
\* spawned are eventually removed from the Map.
C22_BoundedLifetime ==
    (FirstSpawnedHeld /\ hist.ticks + 2 <= MaxTransitTicks) ~> FirstSpawnedGone

\* What part_000 does instead: no frame removes an entry, because the wrapped
\* offset never differs from a startOffset by more than two spacings
C22_NeverRemoved ==
    [][draft = "part_000" => highlights \subseteq highlights']_vars

C22_NeverTravelled ==
    draft = "part_000" =>
        \A e \in highlights : ~TravelledTooFar(props, e, off, w, h)

\* Once the Map holds highlightCount entries no frame spawns again
C22_FullStaysFrozen ==
    [][draft = "part_000" /\ Cardinality(highlights) = props.highlightCount
          => highlights' = highlights]_vars

C22_FullAfterSpawns ==
    /\ draft = "part_000" /\ FrameCrossesScreen(props, w, h)
    /\ Cardinality(highlights) = props.highlightCount /\ hist.ticks >= 4

\* The step is a flip of the reduced-motion signal
MotionFlips == reduced' # reduced

\* C23 (as claimed): a flip of the reduced-motion signal affects position only.
\* The flip leaves a frame callback pending, it leaves the scroll offset, the
\* highlight set and the last-reshuffle time as they were, and a frame under
\* reduced motion paints at the offset it found.
C23_FlipKeepsPosition ==
    [][/\ MotionFlips =>
             /\ sched'.pending # {}
             /\ off' = off
             /\ highlights' = highlights
             /\ lastShuffle' = lastShuffle
       /\ (reduced /\ reduced' /\ surface'.at = now' /\ now' # now) => off' = off]_vars

\* What holds of a flip in both drafts
C23_FlipKeepsLoopAndTimer ==
    [][MotionFlips =>
          /\ sched'.pending = {Request(sched'.rafRef, sched'.run)}
          /\ lastShuffle' = lastShuffle
          /\ off' = 0]_vars

C23_FlippedAfterScroll ==
    /\ reduced /\ hist.events = 1 /\ hist.ticks > 0
    /\ surface = Blank /\ w > 0

\* C24: the loop never stalls or doubles. While the component is mounted with an
\* available canvas, after any interleaving of frames (rendered or skipped),
\* resizes, prop changes and motion-preference changes, exactly one frame
\* callback is pending, it belongs to the current effect run, and rafRef holds
\* its handle.
C24_OneFramePending ==
    (sched.mounted /\ sched.canvas = "ok") =>
        sched.pending = {Request(sched.rafRef, sched.run)}

\* A frame was just skipped by the FPS cap, after a resize, two effect re-runs
\* (the signal is flipped) and earlier frames
C24_AfterInterleaving ==
    /\ sched.mounted /\ sched.canvas = "ok"
    /\ props.targetFps > 0 /\ acc > 0 /\ hist.dt = 0 /\ hist.ticks >= 2
    /\ hist.before # NoResize
    /\ sched.run >= 2 /\ reduced

\* The tiles of the window that the painted frame f of part_001 skips
CulledTiles(p, f) ==
    {t \in WindowTiles("part_001", f.cols, f.rows) :
        Culled001(p, TileU(p, t[1], t[2], f.off), vRowOf(p, t[1]), f.w, f.h)}

\* C25: culling is safe in part_001. In every painted frame no tile that the
\* visibility test skips has a fill area (the diamond of half-extent
\* diamondSize/2 about its centre) that meets the viewport rectangle.
C25_CullingSafe ==
    (draft = "part_001" /\ surface # Blank) =>
        CulledTiles(props, surface) \cap TouchingTiles(draft, props, surface) = {}

\* A painted frame of part_001 that skips tiles and draws tiles that meet the
\* viewport, at an offset that is not the mount's
C25_CulledAndDrawn ==
    /\ draft = "part_001" /\ surface # Blank /\ surface.off # 0
    /\ CulledTiles(props, surface) # {}
    /\ TouchingTiles(draft, props, surface) # {}
    /\ WindowTiles(draft, surface.cols, surface.rows)
          \ (CulledTiles(props, surface) \cup TouchingTiles(draft, props, surface)) # {}

\* s(r): sign for even r, -sign for odd r, sign = +1 exactly for "NE_SW"
RowSign(p, r) ==
    LET sign == IF p.direction = "NE_SW" THEN 1 ELSE -1
    IN  IF (r \div 2) * 2 = r THEN sign ELSE -sign

\* Twice u = c*spacing + spacing/2 + (spacing/2 if r is odd) + s(r)*offset
LatticeU2(p, r, c, o) ==
    2 * c * spacingOf(p) + spacingOf(p)
      + (IF (r \div 2) * 2 = r THEN 0 ELSE spacingOf(p)) + 2 * RowSign(p, r) * o

\* Twice v = r*spacing + spacing/2
LatticeV2(p, r) == 2 * r * spacingOf(p) + spacingOf(p)

\* C26: row parity and direction. In every painted frame, for every row r
\* (negative rows included) and column c of the window, the tile is at
\* u = c*spacing + spacing/2 + (spacing/2 if r is odd, else 0) + s(r)*offset and
\* v = r*spacing + spacing/2; adjacent rows scroll in opposite directions and are
\* one spacing apart in v.
C26_RowParity ==
    surface # Blank =>
        \A t \in WindowTiles(draft, surface.cols, surface.rows) :
            /\ 2 * TileU(props, t[1], t[2], surface.off)
                 = LatticeU2(props, t[1], t[2], surface.off)
            /\ 2 * vRowOf(props, t[1]) = LatticeV2(props, t[1])
            /\ uShiftOf(props, t[1] + 1, surface.off)
                 = -uShiftOf(props, t[1], surface.off)
            /\ vRowOf(props, t[1] + 1) - vRowOf(props, t[1]) = spacingOf(props)

\* A painted frame whose rows, negative odd ones among them, are shifted by a
\* non-zero offset under a direction that is not "NE_SW"
C26_ShiftedNegativeRows ==
    /\ surface # Blank /\ surface.off # 0
    /\ props.direction \notin {"NE_SW", "SW_NE"}
    /\ \E t \in WindowTiles(draft, surface.cols, surface.rows) :
          t[1] < 0 /\ ~isEven(t[1])

\* The step is a resize notification (the effect is not run again)
ResizeNotified == hist'.events = hist.events + 1 /\ sched' = sched

\* C27: a resize notification that reports the current width and height is a
\* no-op: cols, rows, the highlight set, the canvas (its size and its picture)
\* and the scroll offset are unchanged. A notification with another width or
\* height takes the new size, recomputes the counts for it, blanks the canvas and
\* seeds the highlight set again (part_001) or clears it (part_000).
C27_SameSizeNoOp ==
    [][ResizeNotified =>
          IF viewport' = <<w, h>>
          THEN /\ <<w', h', colsVisible', rowsVisible'>> = <<w, h, colsVisible, rowsVisible>>
               /\ highlights' = highlights
               /\ surface' = surface
               /\ off' = off
          ELSE /\ <<w', h'>> = viewport'
               /\ [cols |-> colsVisible', rows |-> rowsVisible']
                    = CoverageCounts(draft, props, w', h')
               /\ surface' = Blank
               /\ off' = off
               /\ IF draft = "part_000" THEN highlights' = {}
                  ELSE highlights' \in SeedOutcomes(props, colsVisible', rowsVisible')]_vars

\* A notification reported the size the component already had, in a run that has
\* painted a scrolled frame with highlights
C27_SameSizeNotified ==
    /\ hist.before # NoResize
    /\ hist.before = [w |-> w, h |-> h, cols |-> colsVisible, rows |-> rowsVisible]
    /\ surface # Blank /\ surface.off # 0 /\ surface.hl # {}

====
